---- MODULE Spec2Model ----
(***************************************************************************)
(* Model of the trading-utilities repository:                              *)
(*   trading_pipeline_mini.py  File Locator, CSV Normalizer, Store Writer  *)
(*   trading_removal.py        Cleanup Sweeper                             *)
(*   trading_analysis.py       Trade Loader, Aggregation Builder           *)
(* Money is kept in whole dollars (profit_usd) or cents (margin,           *)
(* commission); a time of day is <<hour, minute>>; a date is an index into *)
(* a small calendar table.                                                 *)
(***************************************************************************)
EXTENDS Integers, Sequences, FiniteSets, TLC

VARIABLES
    db,          \* persisted store: table name -> set of stored rows
    nextId,      \* the serial sequence behind Trade.id
    wpc,         \* position of write_to_postgresql: "idle", "loop", "done"
    batch,       \* the DataFrame handed to write_to_postgresql
    idx,         \* loop position in batch (1-based index of the next row)
    outcome,     \* per-record result of the current run, in batch order
    dbAtStart,   \* history: the trades_2 table when the current run began
    repeat,      \* history: batch is what the previous run wrote too
    runs,        \* number of Writer runs started
    mpc,         \* position of main() of the ingestion run
    dir,         \* the export files in the watched directory
    file_path,   \* the file main() settled on, NoFile before that
    raw,         \* the DataFrame read from file_path
    filtered,    \* the DataFrame right after the exit filter (line 204)
    rows_removed,\* the count printed at line 213
    cleaned,     \* the DataFrame clean_and_transform_data returned
    calls,       \* history: the components main() called, in order
    report,      \* what the run printed at its boundary
    sfs,         \* sweeper: child folder of the root -> names it holds
    senv,        \* sweeper history: folder -> what the file system answered
    spc,         \* sweeper: position of main() of trading_removal
    todo,        \* sweeper: root entries main() has still to visit
    sent,        \* sweeper history: folder -> names passed to send2trash
    trash,       \* sweeper: <<folder, name>> pairs now in the trash
    sreport,     \* sweeper: the messages printed, as <<message, folder>>
    raised,      \* sweeper: the exception that left main(), "" if none
    sess_in,     \* get_market_session: the argument <<date, hour, minute>>
    sess_out,    \* get_market_session: the value returned, "" before
    dpc,         \* dashboard run: position of the __main__ block
    loaded,      \* dashboard run: the frame load_data returned
    stats,       \* dashboard run: the day-hour performance table
    seenAtLoad,  \* history: the rows the Writer had committed at load time
    visible,     \* dashboard: the rows now shown by the raw-trade table
    gpc,         \* dashboard: update_graph is "idle", "pending" or "drawn"
    dff,         \* dashboard: the frame update_graph sorted and extended
    figure,      \* dashboard: the figure update_graph returned
    procs        \* concurrent ingestion runs: process -> its Writer state

writerVars == <<db, nextId, wpc, batch, idx, outcome, dbAtStart,
                repeat, runs>>

mainVars == <<mpc, dir, file_path, raw, filtered, rows_removed, cleaned,
              calls, report>>

\* the variables of the programs other than the ingestion run
sweepVars == <<sfs, senv, spc, todo, sent, trash, sreport, raised>>

sessVars == <<sess_in, sess_out>>

graphVars == <<visible, gpc, dff, figure>>

dashVars == <<dpc, loaded, stats, seenAtLoad, graphVars>>

concVars == <<procs>>

otherThanIngest == <<sweepVars, sessVars, dashVars, concVars>>

vars == <<writerVars, mainVars, otherThanIngest>>

\* ------------------------------------------------------------------ bounds
MaxBatch == 3
MaxRuns == 2

NoFile == [name |-> "", age |-> 0 - 1, ctime |-> 0]

\* ------------------------------------------------------------ null markers
\* None / NaN in a text column and in a numeric column
NULLS == "NULL"
NULLN == 0 - 9999

\* --------------------------------------------------------------- calendar
\* The model's dates: 1 = 2024-01-15, 2 = 2024-07-16,
\* 3 = 2024-03-10 (clocks go forward), 4 = 2024-11-03 (clocks go back).
Dates == 1..4

DayOfMonth(d) == CASE d = 1 -> 15 [] d = 2 -> 16 [] d = 3 -> 10 [] OTHER -> 3

DayName(d) == CASE d = 1 -> "Monday" [] d = 2 -> "Tuesday" [] OTHER -> "Sunday"

IsoWeek(d) == CASE d = 1 -> 3 [] d = 2 -> 29 [] d = 3 -> 10 [] OTHER -> 44

MonthName(d) ==
    CASE d = 1 -> "January" [] d = 2 -> "July" [] d = 3 -> "March"
      [] OTHER -> "November"

YearOf(d) == 2024

\* US/Central offset from UTC in minutes for a wall-clock time on date d, as
\* pytz localize(is_dst=False) resolves it: a non-existent or ambiguous
\* wall-clock time is taken as standard time.
UtcOffset(d, h, m) ==
    CASE d = 1 -> 360
      [] d = 2 -> 300
      [] d = 3 -> IF h < 3 THEN 360 ELSE 300
      [] OTHER -> IF h < 1 THEN 300 ELSE 360

Localize(d, h, m) == h * 60 + m + UtcOffset(d, h, m)

\* mutant: the open bound is exclusive
get_market_session_StrictOpen(d, hour, minute) ==
    LET trade_datetime == Localize(d, hour, minute)
        market_open == Localize(d, 8, 30)
        market_close == Localize(d, 15, 0)
    IN  IF market_open < trade_datetime /\ trade_datetime < market_close
        THEN "Market Hours"
        ELSE IF trade_datetime < market_open THEN "Pre-Market"
        ELSE "Post-Market"

get_market_session(d, hour, minute) ==
    LET trade_datetime == Localize(d, hour, minute)
        market_open == Localize(d, 8, 30)
        market_close == Localize(d, 15, 0)
    IN  IF market_open <= trade_datetime /\ trade_datetime < market_close
        THEN "Market Hours"
        ELSE IF trade_datetime < market_open THEN "Pre-Market"
        ELSE "Post-Market"

\* ------------------------------------------------------------ Trade schema
Tables == {"trades_2", "trades"}

StrCols == {"symbol", "type", "weekday", "month", "win_loss", "strategy",
            "market_session"}

Columns == {"symbol", "type", "date", "time", "day", "hour", "minute",
            "weekday", "weeknum", "month", "year", "contracts", "margin",
            "commission", "profit_usd", "win_loss", "strategy",
            "market_session"}

\* every column of Trade is nullable=False except strategy
NotNullCols == Columns \ {"strategy"}

KeyCols == {"symbol", "type", "date", "time", "contracts", "profit_usd"}

IsNull(row, c) ==
    IF c \in StrCols THEN row[c] = NULLS
    ELSE IF c = "time" THEN row[c] = <<>>
    ELSE row[c] = NULLN

\* the row the Normalizer builds from one exported line
TradeRow(type, d, h, m, contracts, profit) ==
    [symbol |-> "CL", type |-> type, date |-> d, time |-> <<h, m>>,
     day |-> DayOfMonth(d), hour |-> h, minute |-> m,
     weekday |-> DayName(d), weeknum |-> IsoWeek(d), month |-> MonthName(d),
     year |-> YearOf(d), contracts |-> contracts,
     margin |-> IF contracts = NULLN THEN NULLN ELSE contracts * 10000,
     commission |-> IF contracts = NULLN THEN NULLN ELSE contracts * 87,
     profit_usd |-> profit,
     win_loss |-> IF profit # NULLN /\ profit > 0 THEN "Win" ELSE "Loss",
     strategy |-> "1M Neocloud Micro",
     market_session |-> get_market_session(d, h, m)]

\* ------------------------------------------------------------------ store
\* a stored row is a Trade row plus the id the sequence gave it
Stored(row, id) == [c \in Columns \cup {"id"} |->
                        IF c = "id" THEN id ELSE row[c]]

\* session.query(Trade).filter_by(...): a None criterion renders IS NULL
Matches(s, row) ==
    \A c \in KeyCols :
        IF IsNull(row, c) THEN IsNull(s, c) ELSE s[c] = row[c]

\* mutant: the lookup never finds a row
Existing_NoLookup(table, row) == {}

Existing(table, row) == {s \in table : Matches(s, row)}

\* the INSERT is refused when a NOT NULL column is given no value
IntegrityError(row) == \E c \in NotNullCols : IsNull(row, c)

\* session.commit(): flush the pending rows and make them durable
Commit(table, pend) == table \cup pend

\* mutant: the rollback leaves the refused row behind
Rollback_Keeps(table, pend) == table \cup pend

\* session.rollback(): the uncommitted rows are dropped, the table stays
Rollback(table, pend) == table

\* mutant: the insert is not guarded by the lookup
WriteOne_NoCheck(t, row, id) ==
    IF IntegrityError(row)
    THEN [table |-> Rollback(t, {Stored(row, id)}), result |-> "error",
          used |-> 1]
    ELSE [table |-> Commit(t, {Stored(row, id)}), result |-> "inserted",
          used |-> 1]

\* one pass of the for loop body (lines 301-345) on row, against table t:
\* the new table and the reported result
WriteOne(t, row, id) ==
    IF Existing(t, row) = {}
    THEN IF IntegrityError(row)
         THEN [table |-> Rollback(t, {Stored(row, id)}), result |-> "error",
               used |-> 1]
         ELSE [table |-> Commit(t, {Stored(row, id)}), result |-> "inserted",
               used |-> 1]
    ELSE [table |-> t, result |-> "exists", used |-> 0]

\* ------------------------------------------------------------ Writer input
\* two rows as the Normalizer builds them, and one that lacks a required
\* value
WriterRows ==
    LET r1 == TradeRow("Entry Long", 1, 9, 0, 1, 10)
        r2 == TradeRow("Entry Short", 2, 15, 0, 2, 0 - 5)
    IN  {r1, r2, [r1 EXCEPT !.weekday = NULLS]}

SeqsUpTo(S, n) == UNION {[1..k -> S] : k \in 0..n}

WriterBatches == SeqsUpTo(WriterRows, MaxBatch)

\* ---------------------------------------------------------- Writer actions
\* the store a run may find: empty, or holding rows of earlier ingestion
InitStores ==
    {{}, {Stored(TradeRow("Entry Long", 1, 9, 0, 1, 10), 1)}}

InitStore ==
    /\ \E t0 \in InitStores :
          /\ db = [t \in Tables |-> IF t = "trades_2" THEN t0 ELSE {}]
          /\ nextId = Cardinality(t0) + 1

WriterIdle ==
    /\ wpc = "idle"
    /\ batch = <<>>
    /\ idx = 1
    /\ outcome = <<>>
    /\ dbAtStart = {}
    /\ repeat = FALSE
    /\ runs = 0

MainIdle ==
    /\ mpc = "idle"
    /\ dir = {}
    /\ file_path = NoFile
    /\ raw = <<>>
    /\ filtered = <<>>
    /\ rows_removed = 0
    /\ cleaned = <<>>
    /\ calls = <<>>
    /\ report = <<>>

SweepIdle ==
    /\ sfs = <<>>
    /\ senv = <<>>
    /\ spc = "idle"
    /\ todo = {}
    /\ sent = <<>>
    /\ trash = {}
    /\ sreport = {}
    /\ raised = ""

SessIdle ==
    /\ sess_in = <<>>
    /\ sess_out = ""

\* an empty go.Figure()
EmptyFigure == [points |-> <<>>, hline |-> NULLN]

GraphIdle ==
    /\ visible = <<>>
    /\ gpc = "idle"
    /\ dff = <<>>
    /\ figure = EmptyFigure

DashIdle ==
    /\ dpc = "idle"
    /\ loaded = <<>>
    /\ stats = <<>>
    /\ seenAtLoad = {}
    /\ GraphIdle

ConcIdle == procs = <<>>

InitWriter == InitStore /\ WriterIdle /\ MainIdle /\ SweepIdle /\ SessIdle
              /\ DashIdle /\ ConcIdle

\* write_to_postgresql is entered with df
BeginWrite(df) ==
    /\ wpc = "idle"
    /\ runs < MaxRuns
    /\ wpc' = "loop"
    /\ batch' = df
    /\ idx' = 1
    /\ outcome' = <<>>
    /\ dbAtStart' = db["trades_2"]
    /\ runs' = runs + 1
    /\ repeat' = (runs >= 1 /\ df = batch)
    /\ UNCHANGED <<db, nextId>>

CallWriter ==
    /\ \E df \in WriterBatches : BeginWrite(df)
    /\ UNCHANGED <<mainVars, otherThanIngest>>

\* one iteration of the loop
WriteRecord ==
    /\ wpc = "loop"
    /\ idx <= Len(batch)
    /\ LET w == WriteOne(db["trades_2"], batch[idx], nextId)
       IN  /\ db' = [db EXCEPT !["trades_2"] = w.table]
           /\ nextId' = nextId + w.used
           /\ outcome' = Append(outcome, w.result)
    /\ idx' = idx + 1
    /\ UNCHANGED <<wpc, batch, dbAtStart, repeat, runs>>
    /\ UNCHANGED <<mainVars, otherThanIngest>>

\* the loop is exhausted and write_to_postgresql returns
EndWrite ==
    /\ wpc = "loop"
    /\ idx > Len(batch)
    /\ wpc' = "done"
    /\ UNCHANGED <<db, nextId, batch, idx, outcome, dbAtStart, repeat,
                   runs>>
    /\ UNCHANGED <<mainVars, otherThanIngest>>

\* the process ends; a later run starts from "idle"
ExitWriter ==
    /\ wpc = "done"
    /\ wpc' = "idle"
    /\ UNCHANGED <<db, nextId, batch, idx, outcome, dbAtStart, repeat, runs>>
    /\ UNCHANGED <<mainVars, otherThanIngest>>

NextWriter == CallWriter \/ WriteRecord \/ EndWrite \/ ExitWriter

SpecWriter == InitWriter /\ [][NextWriter]_vars

\* ------------------------------------------------------------ File Locator
MaxAge == 8

\* the export files that may lie in the directory: age is how many days
\* before today the date in the name is, ctime the creation time; export
\* tells whether the name fits the glob pattern at all
FileUniverse ==
    {[name |-> "t1", age |-> 0, ctime |-> 5, export |-> TRUE],
     [name |-> "t2", age |-> 0, ctime |-> 7, export |-> TRUE],
     [name |-> "x0", age |-> 0, ctime |-> 12, export |-> FALSE],
     [name |-> "d3", age |-> 3, ctime |-> 9, export |-> TRUE],
     [name |-> "d7", age |-> 7, ctime |-> 2, export |-> TRUE],
     [name |-> "d8", age |-> MaxAge, ctime |-> 11, export |-> TRUE]}

\* glob.glob(pattern) for the date that lies `age` days back
Glob(directory, age) == {f \in directory : f.export /\ f.age = age}

\* max(files, key=os.path.getctime)
Newest(files) == CHOOSE f \in files : \A g \in files : g.ctime <= f.ctime

\* find_latest_file: the newest export dated today, or FileNotFoundError
find_latest_file(directory) ==
    LET files == Glob(directory, 0)
    IN  IF files = {} THEN [err |-> "FileNotFoundError", path |-> NoFile]
        ELSE [err |-> "", path |-> Newest(files)]

\* mutant: the window reaches one day too far back
find_file_in_date_range_OffByOne(directory, start_age) ==
    LET all_files == UNION {Glob(directory, a) : a \in 0..(start_age + 1)}
    IN  IF all_files = {} THEN [err |-> "FileNotFoundError", path |-> NoFile]
        ELSE [err |-> "", path |-> Newest(all_files)]

\* find_file_in_date_range(directory, start_date=today - start_age), with
\* end_date defaulting to today: every date from today back to start_date
find_file_in_date_range(directory, start_age) ==
    LET all_files == UNION {Glob(directory, a) : a \in 0..start_age}
    IN  IF all_files = {} THEN [err |-> "FileNotFoundError", path |-> NoFile]
        ELSE [err |-> "", path |-> Newest(all_files)]

\* --------------------------------------------------------- CSV Normalizer
MaxCsv == 3

\* lines of an export: Type, Date/Time, Contracts, Profit USD (the other
\* columns are dropped before any row is removed)
RawRow(type, d, h, m, contracts, profit) ==
    [Type |-> type, DateTime |-> <<d, h, m>>, Contracts |-> contracts,
     ProfitUSD |-> profit]

RawRows ==
    {RawRow("Entry Long", 1, 9, 0, 1, 10),
     RawRow("Exit Long", 1, 9, 30, 1, 10),
     RawRow("Exit Short", 2, 15, 0, 2, 0 - 5),
     RawRow("Entry Short", 2, 15, 0, 2, 0 - 5),
     RawRow(NULLS, 1, 8, 29, 1, 0),
     RawRow("Entry Long", 1, 8, 30, NULLN, 0)}

RawCsvs == SeqsUpTo(RawRows, MaxCsv)

\* lines 161-198: the derived columns of one line
Derive(r) ==
    TradeRow(r.Type, r.DateTime[1], r.DateTime[2], r.DateTime[3],
             r.Contracts, r.ProfitUSD)

\* mutant: the two tests joined by "or", which keeps every row
ExitFilter_Or(frame) ==
    SelectSeq(frame,
              LAMBDA r : (r.type # "Exit Short") \/ (r.type # "Exit Long"))

\* line 204
ExitFilter(frame) ==
    SelectSeq(frame,
              LAMBDA r : (r.type # "Exit Short") /\ (r.type # "Exit Long"))

\* line 270
DropNa(frame) ==
    SelectSeq(frame, LAMBDA r : \A c \in Columns : ~ IsNull(r, c))

clean_and_transform_data(frame) ==
    LET derived == [i \in 1..Len(frame) |-> Derive(frame[i])]
        original_length == Len(derived)
        kept == ExitFilter(derived)
        new_length == Len(kept)
    IN  [filtered |-> kept,
         rows_removed |-> original_length - new_length,
         result |-> DropNa(kept)]

\* ------------------------------------------------------------------ main()
WidenDays == 7

InitMain ==
    /\ InitStore /\ WriterIdle /\ SweepIdle /\ SessIdle /\ DashIdle
    /\ ConcIdle
    /\ mpc = "start"
    /\ dir \in SUBSET FileUniverse
    /\ file_path = NoFile
    /\ raw = <<>>
    /\ filtered = <<>>
    /\ rows_removed = 0
    /\ cleaned = <<>>
    /\ calls = <<>>
    /\ report = <<>>

\* lines 355-359: try today's file first
MainFindLatest ==
    /\ mpc = "start"
    /\ calls' = Append(calls, "find_latest_file")
    /\ LET r == find_latest_file(dir)
       IN  IF r.err = ""
           THEN /\ file_path' = r.path
                /\ mpc' = "load"
                /\ report' = report
           ELSE /\ file_path' = file_path
                /\ mpc' = "widen"
                /\ report' = Append(report, "Searching for recent files")
    /\ UNCHANGED <<dir, raw, filtered, rows_removed, cleaned>>
    /\ UNCHANGED <<writerVars, otherThanIngest>>

\* lines 360-362 and 374-376: the one widened search
MainWiden ==
    /\ mpc = "widen"
    /\ calls' = Append(calls, "find_file_in_date_range")
    /\ LET r == find_file_in_date_range(dir, WidenDays)
       IN  IF r.err = ""
           THEN /\ file_path' = r.path
                /\ mpc' = "load"
                /\ report' = report
           ELSE /\ file_path' = file_path
                /\ mpc' = "end"
                /\ report' = Append(report, "No suitable files found")
    /\ UNCHANGED <<dir, raw, filtered, rows_removed, cleaned>>
    /\ UNCHANGED <<writerVars, otherThanIngest>>

\* line 366 and 377-380: read the file, or report that it cannot be read
MainLoad ==
    /\ mpc = "load"
    /\ calls' = Append(calls, "load_csv_to_dataframe")
    /\ \/ \E csv \in RawCsvs :
             /\ raw' = csv
             /\ mpc' = "clean"
             /\ report' = Append(report, "Processing file")
       \/ \E e \in {"EmptyDataError", "ParserError"} :
             /\ raw' = raw
             /\ mpc' = "end"
             /\ report' = Append(report, e)
    /\ UNCHANGED <<dir, file_path, filtered, rows_removed, cleaned>>
    /\ UNCHANGED <<writerVars, otherThanIngest>>

\* line 367
MainClean ==
    /\ mpc = "clean"
    /\ calls' = Append(calls, "clean_and_transform_data")
    /\ LET c == clean_and_transform_data(raw)
       IN  /\ filtered' = c.filtered
           /\ rows_removed' = c.rows_removed
           /\ cleaned' = c.result
    /\ mpc' = "write"
    /\ UNCHANGED <<dir, file_path, raw, report>>
    /\ UNCHANGED <<writerVars, otherThanIngest>>

\* line 368: enter the Writer with the cleaned frame
MainWrite ==
    /\ mpc = "write"
    /\ calls' = Append(calls, "write_to_postgresql")
    /\ BeginWrite(cleaned)
    /\ mpc' = "writing"
    /\ UNCHANGED <<dir, file_path, raw, filtered, rows_removed, cleaned,
                   report>>
    /\ UNCHANGED otherThanIngest

\* lines 370 and 390-391: the Writer returned, the run ends
MainFinish ==
    /\ mpc = "writing"
    /\ wpc = "done"
    /\ mpc' = "end"
    /\ wpc' = "idle"
    /\ report' = Append(report, "Data ingestion and processing complete")
    /\ UNCHANGED <<db, nextId, batch, idx, outcome, dbAtStart, repeat, runs>>
    /\ UNCHANGED <<dir, file_path, raw, filtered, rows_removed, cleaned,
                   calls>>
    /\ UNCHANGED otherThanIngest

NextMain ==
    \/ MainFindLatest
    \/ MainWiden
    \/ MainLoad
    \/ MainClean
    \/ MainWrite
    \/ WriteRecord
    \/ EndWrite
    \/ MainFinish

SpecMain == InitMain /\ [][NextMain]_vars

\* --------------------------------------------------------- Cleanup Sweeper
MaxFolders == 2

\* a file name is the sequence of its characters
DS_Store == <<".", "D", "S", "_", "S", "t", "o", "r", "e">>

Names == {DS_Store, <<".", "h">>, <<"a">>, <<"b">>}

\* the entries of FOLDER_PATH: child folders 1..MaxFolders and a plain file 0
Folders == 1..MaxFolders

RootEntries == Folders \cup {0}

\* os.path.isdir
isdir(e) == e \in Folders

\* mutant: only .DS_Store counts as hidden
is_visible_file_OnlyDS(filename) == filename # DS_Store

\* line 11
is_visible_file(filename) == ~ (filename[1] = ".") /\ filename # DS_Store

ListErrors == {"", "FileNotFoundError", "PermissionError"}

TrashErrors == {"", "OSError"}

\* process_folder on a folder that holds `contents`, when os.listdir answers
\* with le and send2trash with te: the names handed to send2trash, the names
\* that reached the trash and the message printed
process_folder(contents, le, te) ==
    LET visible_files == {n \in contents : is_visible_file(n)}
    IN  IF le = "FileNotFoundError"
        THEN [sent |-> {}, trashed |-> {}, msg |-> "does not exist"]
        ELSE IF le # ""
        THEN [sent |-> {}, trashed |-> {}, msg |-> "error"]
        ELSE IF visible_files = {}
        THEN [sent |-> {}, trashed |-> {}, msg |-> "no visible files"]
        ELSE IF Cardinality(visible_files) > 1
        THEN [sent |-> {}, trashed |-> {}, msg |-> "multiple visible files"]
        ELSE IF te # ""
        THEN [sent |-> visible_files, trashed |-> {}, msg |-> "error"]
        ELSE [sent |-> visible_files, trashed |-> visible_files,
              msg |-> "moved to the trash"]

EmptyStore ==
    /\ db = [t \in Tables |-> {}]
    /\ nextId = 1

IngestIdle == EmptyStore /\ WriterIdle /\ MainIdle /\ ConcIdle

InitSweep ==
    /\ IngestIdle /\ SessIdle /\ DashIdle
    /\ sfs \in [Folders -> SUBSET Names]
    /\ senv = [f \in Folders |-> [visited |-> FALSE, list |-> "", trash |-> ""]]
    /\ spc = "start"
    /\ todo = {}
    /\ sent = [f \in Folders |-> {}]
    /\ trash = {}
    /\ sreport = {}
    /\ raised = ""

\* line 37: os.listdir(FOLDER_PATH), outside any try
SweepList ==
    /\ spc = "start"
    /\ \E e \in ListErrors :
          IF e = ""
          THEN /\ todo' = RootEntries
               /\ spc' = "loop"
               /\ raised' = raised
          ELSE /\ todo' = todo
               /\ spc' = "crashed"
               /\ raised' = e
    /\ UNCHANGED <<sfs, senv, sent, trash, sreport>>
    /\ UNCHANGED <<writerVars, mainVars, sessVars, dashVars, concVars>>

\* lines 37-41: one iteration of the loop over the root's entries
SweepVisit ==
    /\ spc = "loop"
    /\ \E e \in todo :
          /\ todo' = todo \ {e}
          /\ IF isdir(e)
             THEN \E le \in ListErrors, te \in TrashErrors :
                     LET r == process_folder(sfs[e], le, te)
                     IN  /\ sfs' = [sfs EXCEPT ![e] = @ \ r.trashed]
                         /\ sent' = [sent EXCEPT ![e] = @ \cup r.sent]
                         /\ trash' = trash \cup {<<e, n>> : n \in r.trashed}
                         /\ sreport' = sreport \cup {<<r.msg, e>>}
                         /\ senv' = [senv EXCEPT ![e] =
                                       [visited |-> TRUE, list |-> le,
                                        trash |-> IF r.sent = {} THEN ""
                                                  ELSE te]]
             ELSE UNCHANGED <<sfs, sent, trash, sreport, senv>>
    /\ UNCHANGED <<spc, raised>>
    /\ UNCHANGED <<writerVars, mainVars, sessVars, dashVars, concVars>>

\* the loop is exhausted and main() returns
SweepEnd ==
    /\ spc = "loop"
    /\ todo = {}
    /\ spc' = "end"
    /\ UNCHANGED <<sfs, senv, todo, sent, trash, sreport, raised>>
    /\ UNCHANGED <<writerVars, mainVars, sessVars, dashVars, concVars>>

NextSweep == SweepList \/ SweepVisit \/ SweepEnd

SpecSweep == InitSweep /\ [][NextSweep]_vars

\* ----------------------------------------------------- get_market_session
\* the function on its own: every date of the calendar, every valid time
InitSession ==
    /\ IngestIdle /\ SweepIdle /\ DashIdle
    /\ sess_in \in Dates \X (0..23) \X (0..59)
    /\ sess_out = ""

\* line 241-243: the function is applied to a row's date, hour and minute
ApplySession ==
    /\ sess_out = ""
    /\ sess_out' = get_market_session(sess_in[1], sess_in[2], sess_in[3])
    /\ UNCHANGED sess_in
    /\ UNCHANGED <<writerVars, mainVars, sweepVars, dashVars, concVars>>

NextSession == ApplySession

SpecSession == InitSession /\ [][NextSession]_vars

\* ------------------------------------------------------------ Trade Loader
INITIAL_CAPITAL == 20000

MaxTrades == 6

\* the day of the year of a calendar date, the order ORDER BY date follows
Ordinal(d) == CASE d = 1 -> 15 [] d = 2 -> 198 [] d = 3 -> 70 [] OTHER -> 308

\* rows the trades table may hold: <<date, hour, minute, profit>>
TradeUniverse ==
    LET mk(i, d, h, m, p) == Stored(TradeRow("Entry Long", d, h, m, 1, p), i)
    IN  {mk(1, 2, 15, 0, 100), mk(2, 2, 9, 5, 0 - 50), mk(3, 1, 9, 30, 200),
         mk(4, 1, 9, 0, 10), mk(5, 1, 9, 10, 0 - 5), mk(6, 1, 9, 20, 20),
         mk(7, 1, 9, 40, 0 - 1), mk(8, 1, 9, 40, 7), mk(9, 3, 16, 0, 0)}

TradeTables == {T \in SUBSET TradeUniverse : Cardinality(T) <= MaxTrades}

\* ORDER BY date DESC, time DESC: s may come before t
Precedes(s, t) ==
    \/ Ordinal(s.date) > Ordinal(t.date)
    \/ /\ s.date = t.date
       /\ \/ s.time[1] > t.time[1]
          \/ s.time[1] = t.time[1] /\ s.time[2] >= t.time[2]

\* every order the query may return the table in (ties in any order)
RECURSIVE QueryOrders(_)
QueryOrders(T) ==
    IF T = {} THEN {<<>>}
    ELSE UNION {{<<x>> \o rest : rest \in QueryOrders(T \ {x})} :
                  x \in {y \in T : \A z \in T : Precedes(y, z)}}

\* mutant: the running total stops short of the current row
RECURSIVE CumSum_Exclusive(_, _, _)
CumSum_Exclusive(values, i, acc) ==
    IF i > Len(values) THEN <<>>
    ELSE <<acc>> \o CumSum_Exclusive(values, i + 1, acc + values[i])

\* Series.cumsum(): the running total, left to right
RECURSIVE CumSum(_, _, _)
CumSum(values, i, acc) ==
    IF i > Len(values) THEN <<>>
    ELSE <<acc + values[i]>> \o CumSum(values, i + 1, acc + values[i])

\* lines 42-52: the hour of the time column, by the column's dtype
HourOf(t, dtype) ==
    IF dtype = "object" \/ dtype = "time" THEN t[1] ELSE NULLN

TimeDtypes == {"object", "time", "timedelta64[ns]"}

\* load_data on the rows `rows` as the query returned them
load_data(rows, dtype) ==
    LET cumulative_profit ==
            CumSum([i \in 1..Len(rows) |-> rows[i].profit_usd], 1, 0)
    IN  [i \in 1..Len(rows) |->
            [id |-> rows[i].id,
             date |-> rows[i].date,
             time |-> rows[i].time,
             profit_usd |-> rows[i].profit_usd,
             cumulative_profit |-> cumulative_profit[i],
             equity |-> INITIAL_CAPITAL + cumulative_profit[i],
             day |-> DayName(rows[i].date),
             hour |-> HourOf(rows[i].time, dtype)]]

\* ----------------------------------------------------- Aggregation Builder
day_order == <<"Monday", "Tuesday", "Wednesday", "Thursday", "Friday",
               "Saturday", "Sunday">>

DayIdx(name) == CHOOSE i \in 1..7 : day_order[i] = name

\* the group keys <<day, hour>> of a frame; a missing hour forms no group
GroupKeys(frame) ==
    {<<frame[i].day, frame[i].hour>> :
        i \in {j \in 1..Len(frame) : frame[j].hour # NULLN}}

KeyBefore(k1, k2) ==
    \/ DayIdx(k1[1]) < DayIdx(k2[1])
    \/ DayIdx(k1[1]) = DayIdx(k2[1]) /\ k1[2] <= k2[2]

\* groupby(...) yields its groups in sorted key order
RECURSIVE SortedKeys(_)
SortedKeys(K) ==
    IF K = {} THEN <<>>
    ELSE LET k == CHOOSE x \in K : \A y \in K : KeyBefore(x, y)
         IN  <<k>> \o SortedKeys(K \ {k})

\* mutant: the second pass over the groups runs in the opposite order
RECURSIVE SortedKeys_Reversed(_)
SortedKeys_Reversed(K) ==
    IF K = {} THEN <<>>
    ELSE LET k == CHOOSE x \in K : \A y \in K : KeyBefore(y, x)
         IN  <<k>> \o SortedKeys_Reversed(K \ {k})

\* the order in which group["profit_usd"].apply(...) yields the groups
ApplyOrder(K) == SortedKeys(K)

\* the profit_usd values of the group with key k, as a sequence
GroupProfits(frame, k) ==
    LET members == SelectSeq(frame, LAMBDA r : <<r.day, r.hour>> = k)
    IN  [i \in 1..Len(members) |-> members[i].profit_usd]

RECURSIVE SumSeq(_)
SumSeq(q) == IF q = <<>> THEN 0 ELSE Head(q) + SumSeq(Tail(q))

\* num / den rounded to the nearest integer, ties to even (den > 0)
RoundHalfEven(num, den) ==
    LET fl == IF num >= 0 THEN num \div den
              ELSE 0 - ((0 - num + den - 1) \div den)
        twice == 2 * (num - fl * den)
    IN  IF twice < den THEN fl
        ELSE IF twice > den THEN fl + 1
        ELSE IF fl % 2 = 0 THEN fl ELSE fl + 1

\* lambda x: (x > 0).mean(), then round(2): kept in hundredths
WinRate(profits) ==
    RoundHalfEven(100 * Cardinality({i \in 1..Len(profits) : profits[i] > 0}),
                  Len(profits))

\* create_day_hour_performance_table; avg_profit is kept in cents
create_day_hour_performance_table(frame) ==
    LET keys == SortedKeys(GroupKeys(frame))
        rateKeys == ApplyOrder(GroupKeys(frame))
        win_rate == [i \in 1..Len(rateKeys) |->
                        WinRate(GroupProfits(frame, rateKeys[i]))]
    IN  [i \in 1..Len(keys) |->
            LET profits == GroupProfits(frame, keys[i])
            IN  [day |-> keys[i][1],
                 hour |-> keys[i][2],
                 avg_profit |-> RoundHalfEven(100 * SumSeq(profits),
                                              Len(profits)),
                 total_profit |-> SumSeq(profits),
                 trade_count |-> Len(profits),
                 win_rate |-> win_rate[i]]]

\* --------------------------------------------------------- dashboard run
InitDash ==
    /\ WriterIdle /\ MainIdle /\ SweepIdle /\ SessIdle /\ ConcIdle
    /\ seenAtLoad = {}
    /\ GraphIdle
    /\ \E T \in TradeTables :
          db = [t \in Tables |-> IF t = "trades" THEN T ELSE {}]
    /\ nextId = 1
    /\ dpc = "start"
    /\ loaded = <<>>
    /\ stats = <<>>

\* line 262: load_data(), which answers any failure with an empty frame
LoadData ==
    /\ dpc = "start"
    /\ \/ \E rows \in QueryOrders(db["trades"]), dtype \in TimeDtypes :
             loaded' = load_data(rows, dtype)
       \/ loaded' = <<>>
    /\ dpc' = IF loaded' = <<>> THEN "not started" ELSE "loaded"
    /\ seenAtLoad' = db["trades_2"]
    /\ UNCHANGED <<stats, graphVars>>
    /\ UNCHANGED <<writerVars, mainVars, sweepVars, sessVars, concVars>>

\* lines 263-264 and 208: create_app builds the performance table
CreateApp ==
    /\ dpc = "loaded"
    /\ stats' = create_day_hour_performance_table(loaded)
    /\ dpc' = "serving"
    /\ UNCHANGED <<loaded, seenAtLoad, graphVars>>
    /\ UNCHANGED <<writerVars, mainVars, sweepVars, sessVars, concVars>>

NextDash == LoadData \/ CreateApp

SpecDash == InitDash /\ [][NextDash]_vars

\* ----------------------------------------------------------- update_graph
MaxGraphRows == 4

\* the frames the raw-trade table may have been filled from
GraphTables ==
    {T \in SUBSET TradeUniverse : T # {} /\ Cardinality(T) <= MaxGraphRows}

\* what the table may show after the user's filters and sorts: any of the
\* rows of the frame, each at most once, in any order
RECURSIVE Arrangements(_)
Arrangements(S) ==
    {<<>>} \cup UNION {{<<x>> \o rest : rest \in Arrangements(S \ {x})} :
                          x \in S}

FrameRows(frame) == {frame[i] : i \in 1..Len(frame)}

\* line 241: sort_values("date").reset_index(drop=True); rows of one date
\* may come out in any order
RECURSIVE DateSorts(_)
DateSorts(S) ==
    IF S = {} THEN {<<>>}
    ELSE UNION {{<<x>> \o rest : rest \in DateSorts(S \ {x})} :
                  x \in {y \in S : \A z \in S :
                            Ordinal(y.date) <= Ordinal(z.date)}}

required_columns == {"date", "profit_usd"}

\* mutant: the chart shows the equity column the rows arrived with
update_graph_Stale(rows, sorted) ==
    IF rows = <<>> THEN [dff |-> <<>>, figure |-> EmptyFigure]
    ELSE IF ~ (required_columns \subseteq DOMAIN rows[1])
    THEN [dff |-> <<>>, figure |-> EmptyFigure]
    ELSE [dff |-> sorted,
          figure |-> [points |-> [i \in 1..Len(sorted) |->
                                    [x |-> sorted[i].date,
                                     y |-> sorted[i].equity]],
                      hline |-> INITIAL_CAPITAL]]

\* update_graph(rows), where sorted is what the sort at line 241 gave
update_graph(rows, sorted) ==
    IF rows = <<>> THEN [dff |-> <<>>, figure |-> EmptyFigure]
    ELSE IF ~ (required_columns \subseteq DOMAIN rows[1])
    THEN [dff |-> <<>>, figure |-> EmptyFigure]
    ELSE LET cumulative_profit ==
                 CumSum([i \in 1..Len(sorted) |-> sorted[i].profit_usd], 1, 0)
             frame == [i \in 1..Len(sorted) |->
                         [sorted[i] EXCEPT
                             !.cumulative_profit = cumulative_profit[i],
                             !.equity = INITIAL_CAPITAL
                                           + cumulative_profit[i]]]
         IN  [dff |-> frame,
              figure |-> [points |-> [i \in 1..Len(frame) |->
                                        [x |-> frame[i].date,
                                         y |-> frame[i].equity]],
                          hline |-> INITIAL_CAPITAL]]

\* the served dashboard, with some rows showing in the raw-trade table
InitGraph ==
    /\ WriterIdle /\ MainIdle /\ SweepIdle /\ SessIdle /\ ConcIdle
    /\ nextId = 1
    /\ seenAtLoad = {}
    /\ \E T \in GraphTables :
          /\ db = [t \in Tables |-> IF t = "trades" THEN T ELSE {}]
          /\ \E rows \in QueryOrders(T) :
                /\ loaded = load_data(rows, "object")
                /\ visible \in Arrangements(FrameRows(loaded))
    /\ stats = create_day_hour_performance_table(loaded)
    /\ dpc = "serving"
    /\ gpc = "pending"
    /\ dff = <<>>
    /\ figure = EmptyFigure

\* lines 223-256: the callback runs on the table's derived_virtual_data
UpdateGraph ==
    /\ dpc = "serving"
    /\ gpc = "pending"
    /\ \E sorted \in DateSorts(FrameRows(visible)) :
          LET r == update_graph(visible, sorted)
          IN  /\ dff' = r.dff
              /\ figure' = r.figure
    /\ gpc' = "drawn"
    /\ UNCHANGED <<dpc, loaded, stats, seenAtLoad, visible>>
    /\ UNCHANGED <<writerVars, mainVars, sweepVars, sessVars, concVars>>

NextGraph == UpdateGraph

SpecGraph == InitGraph /\ [][NextGraph]_vars

\* ---------------------------------------------- ingestion, then dashboard
\* what the trades table, which load_data queries, may hold
LifeTables ==
    {{}, {Stored(TradeRow("Entry Long", 2, 15, 0, 1, 100), 1)}}

InitLife ==
    /\ \E T \in LifeTables :
          db = [t \in Tables |-> IF t = "trades_2" THEN {} ELSE T]
    /\ nextId = 1
    /\ WriterIdle /\ MainIdle /\ SweepIdle /\ SessIdle /\ ConcIdle
    /\ dpc = "start"
    /\ loaded = <<>>
    /\ stats = <<>>
    /\ seenAtLoad = {}
    /\ GraphIdle

\* main() of the pipeline is run once against the empty table
LifeIngest == runs = 0 /\ CallWriter

\* one ingestion run and one dashboard run, as separate processes on one
\* database
NextLife ==
    \/ LifeIngest
    \/ WriteRecord
    \/ EndWrite
    \/ ExitWriter
    \/ LoadData
    \/ CreateApp

SpecLife == InitLife /\ [][NextLife]_vars

\* ------------------------------------------- two ingestion runs at a time
MaxConcBatch == 2

Procs == {1, 2}

ConcBatches == SeqsUpTo(WriterRows, MaxConcBatch)

\* each process has its own session and its own frame
InitConc ==
    /\ InitStore /\ WriterIdle /\ MainIdle /\ SweepIdle /\ SessIdle
    /\ DashIdle
    /\ procs \in [Procs -> {[pc |-> "lookup", batch |-> b, idx |-> 1,
                             pending |-> <<>>] : b \in ConcBatches}]

\* lines 324-335 and 340-341: the SELECT sees the committed rows only
CLookup(p) ==
    LET me == procs[p]
    IN  /\ me.pc = "lookup"
        /\ me.idx <= Len(me.batch)
        /\ IF Existing(db["trades_2"], me.batch[me.idx]) = {}
           THEN procs' = [procs EXCEPT ![p].pc = "add"]
           ELSE procs' = [procs EXCEPT ![p].idx = me.idx + 1]
        /\ UNCHANGED <<writerVars, mainVars, sweepVars, sessVars, dashVars>>

\* line 338: session.add(trade)
CAdd(p) ==
    LET me == procs[p]
    IN  /\ me.pc = "add"
        /\ procs' = [procs EXCEPT ![p].pc = "commit",
                                  ![p].pending = <<me.batch[me.idx]>>]
        /\ UNCHANGED <<writerVars, mainVars, sweepVars, sessVars, dashVars>>

\* lines 339 and 343-345: session.commit() sends the INSERT and commits, or
\* the INSERT is refused and the session is rolled back
CCommit(p) ==
    LET me == procs[p]
        new == {Stored(me.pending[1], nextId)}
    IN  /\ me.pc = "commit"
        /\ db' = [db EXCEPT !["trades_2"] =
                     IF IntegrityError(me.pending[1])
                     THEN Rollback(@, new) ELSE Commit(@, new)]
        /\ nextId' = nextId + 1
        /\ procs' = [procs EXCEPT ![p].pc = "lookup",
                                  ![p].idx = me.idx + 1,
                                  ![p].pending = <<>>]
        /\ UNCHANGED <<wpc, batch, idx, outcome, dbAtStart, repeat, runs>>
        /\ UNCHANGED <<mainVars, sweepVars, sessVars, dashVars>>

\* the loop is exhausted
CEnd(p) ==
    LET me == procs[p]
    IN  /\ me.pc = "lookup"
        /\ me.idx > Len(me.batch)
        /\ procs' = [procs EXCEPT ![p].pc = "done"]
        /\ UNCHANGED <<writerVars, mainVars, sweepVars, sessVars, dashVars>>

ConcLookup == \E p \in Procs : CLookup(p)

ConcAdd == \E p \in Procs : CAdd(p)

ConcCommit == \E p \in Procs : CCommit(p)

ConcEnd == \E p \in Procs : CEnd(p)

NextConc == ConcLookup \/ ConcAdd \/ ConcCommit \/ ConcEnd

SpecConc == InitConc /\ [][NextConc]_vars

\* ------------------------------------------------------- Writer properties
KeyOf(r) == [c \in KeyCols |-> r[c]]

RowOf(s) == [c \in Columns |-> s[c]]

Trades2 == db["trades_2"]

\* C1: a Writer run on the batch the previous completed run wrote inserts no
\* row: every record is reported without an insert and the table at the end
\* of the run is the table the run started from.
C1_Idempotent ==
    (wpc = "done" /\ repeat)
        => /\ Trades2 = dbAtStart
           /\ \A i \in 1..Len(outcome) : outcome[i] # "inserted"

C1_Witness ==
    /\ wpc = "done" /\ repeat
    /\ Len(batch) >= 2
    /\ \E i \in 1..Len(batch) :
          \E s \in Trades2 : RowOf(s) = batch[i] /\ s.id > 1

\* C2: sequential Writer runs keep at most one stored row per natural key,
\* and a record whose key matches a stored row leaves the table untouched.
KeyUnique ==
    \A s1, s2 \in Trades2 : KeyOf(s1) = KeyOf(s2) => s1 = s2

C2_KeyUnique ==
    [][/\ KeyUnique'
       /\ (/\ wpc = "loop" /\ idx <= Len(batch)
           /\ \E s \in Trades2 : KeyOf(s) = KeyOf(batch[idx]))
              => db' = db]_vars

C2_Witness ==
    /\ wpc = "done"
    /\ Len(batch) >= 2
    /\ batch[1] = batch[2]
    /\ outcome[1] = "inserted" /\ outcome[2] = "exists"
    /\ Cardinality({s \in Trades2 : KeyOf(s) = KeyOf(batch[1])}) = 1

\* C3: a record whose insert raises an integrity violation is not persisted,
\* every record committed before it stays persisted, nothing that was in the
\* table is lost, and the run goes on to the end of the batch.
C3_FailureIsolation ==
    /\ dbAtStart \subseteq Trades2
    /\ wpc # "idle" =>
          \A i \in 1..Len(outcome) :
             /\ outcome[i] = "inserted" =>
                   \E s \in Trades2 \ dbAtStart : RowOf(s) = batch[i]
             /\ outcome[i] = "error" =>
                   ~ \E s \in Trades2 : RowOf(s) = batch[i]
    /\ wpc = "done" => Len(outcome) = Len(batch)

C3_Witness ==
    /\ wpc = "done"
    /\ Len(batch) = 3
    /\ outcome = <<"inserted", "error", "inserted">>

\* --------------------------------------------------- ingestion properties
Called(c) == \E i \in 1..Len(calls) : calls[i] = c

TodayMatches == {f \in dir : f.export /\ f.age = 0}

WeekMatches == {f \in dir : f.export /\ f.age <= 7}

\* C4: main() searches today's files first; it widens the search to the
\* last 7 days only when today has no match, and only once; when the widened
\* search matches nothing either, the run never reads, normalizes or writes,
\* ends with the failure reported and leaves the store as it found it.
C4_SourceNotFound ==
    /\ Len(calls) >= 1 => calls[1] = "find_latest_file"
    /\ \A i \in 1..Len(calls) :
          calls[i] = "find_file_in_date_range"
              => i = 2 /\ TodayMatches = {}
    /\ WeekMatches = {} =>
          /\ mpc \in {"start", "widen", "end"}
          /\ wpc = "idle" /\ runs = 0 /\ outcome = <<>>
          /\ cleaned = <<>> /\ raw = <<>>
          /\ Trades2 \in InitStores /\ nextId = Cardinality(Trades2) + 1
          /\ mpc = "end" =>
                /\ calls = <<"find_latest_file", "find_file_in_date_range">>
                /\ report[Len(report)] = "No suitable files found"

C4_Witness ==
    /\ mpc = "end"
    /\ WeekMatches = {}
    /\ \E f \in dir : f.export /\ f.age = MaxAge
    /\ \E f \in dir : ~ f.export
    /\ Trades2 # {}

ExitTypes == {"Exit Short", "Exit Long"}

SameLine(r, t) ==
    /\ t.type = r.Type
    /\ t.date = r.DateTime[1]
    /\ t.time = <<r.DateTime[2], r.DateTime[3]>>
    /\ t.contracts = r.Contracts
    /\ t.profit_usd = r.ProfitUSD

Count(frame, P(_)) == Cardinality({i \in 1..Len(frame) : P(frame[i])})

\* C8: once the Normalizer has run, no exit-type row is in its output, every
\* line that is not an exit survives the exit filter as often as the export
\* holds it, and the removed count is the length before the filter minus the
\* length after it, i.e. the number of exit-type lines.
C8_ExitRemoval ==
    Called("clean_and_transform_data") =>
        /\ \A i \in 1..Len(cleaned) : cleaned[i].type \notin ExitTypes
        /\ \A i \in 1..Len(filtered) : filtered[i].type \notin ExitTypes
        /\ \A i \in 1..Len(raw) :
              raw[i].Type \notin ExitTypes =>
                  Count(filtered, LAMBDA t : SameLine(raw[i], t))
                      = Count(raw, LAMBDA r : r = raw[i])
        /\ rows_removed = Len(raw) - Len(filtered)
        /\ rows_removed = Count(raw, LAMBDA r : r.Type \in ExitTypes)

C8_Witness ==
    /\ Called("clean_and_transform_data")
    /\ rows_removed = 1
    /\ Len(filtered) = 2
    /\ Len(cleaned) = 1
    /\ \E i \in 1..Len(raw) : raw[i].Type = "Exit Long"

\* ----------------------------------------------------- sweeper properties
\* what folder f held when the run began
Held(f) == sfs[f] \cup {n \in Names : <<f, n>> \in trash}

Visible(f) == {n \in Held(f) : n[1] # "."}

TrashOf(f) == {n \in Names : <<f, n>> \in trash}

\* C5: of a child folder that process_folder has listed, the single visible
\* entry is handed to the trash when there is exactly one (and is in the trash
\* and gone from the folder unless the trash refused it); with no or several
\* visible entries nothing is handed over and the ambiguity is reported.  At
\* most one entry per folder is ever discarded.
C5_SweeperRule ==
    \A f \in Folders :
        /\ Cardinality(sent[f]) <= 1
        /\ TrashOf(f) \subseteq sent[f]
        /\ (senv[f].visited /\ senv[f].list = "") =>
              IF Cardinality(Visible(f)) = 1
              THEN /\ sent[f] = Visible(f)
                   /\ senv[f].trash = "" =>
                         /\ TrashOf(f) = Visible(f)
                         /\ sfs[f] \cap Visible(f) = {}
                         /\ <<"moved to the trash", f>> \in sreport
              ELSE /\ sent[f] = {}
                   /\ TrashOf(f) = {}
                   /\ IF Visible(f) = {}
                      THEN <<"no visible files", f>> \in sreport
                      ELSE <<"multiple visible files", f>> \in sreport
        /\ ~ senv[f].visited => sent[f] = {}

C5_Witness ==
    /\ spc = "end"
    /\ \E f, g \in Folders :
          /\ Cardinality(Held(f)) = 3 /\ Cardinality(TrashOf(f)) = 1
          /\ Cardinality(Visible(g)) = 2 /\ sent[g] = {}
          /\ <<"multiple visible files", g>> \in sreport

\* C6: no missing folder or access error leaves the sweeper run: each is
\* reported, and the run visits every entry of the root.
C6_ErrorContainment ==
    /\ raised = ""
    /\ spc # "crashed"
    /\ \A f \in Folders :
          (senv[f].visited /\ senv[f].list = "FileNotFoundError")
              => <<"does not exist", f>> \in sreport
    /\ \A f \in Folders :
          (senv[f].visited
             /\ (senv[f].list = "PermissionError" \/ senv[f].trash # ""))
              => <<"error", f>> \in sreport
    /\ spc = "end" => \A f \in Folders : senv[f].visited

\* ----------------------------------------------------- session properties
\* C7: get_market_session is Pre-Market strictly before 08:30, Market Hours
\* from 08:30 up to but not including 15:00, Post-Market from 15:00 on, for
\* every date and every valid hour and minute.
C7_MarketSession ==
    sess_out # "" =>
        LET t == sess_in[2] * 60 + sess_in[3]
        IN  /\ sess_out \in {"Pre-Market", "Market Hours", "Post-Market"}
            /\ sess_out = "Pre-Market" <=> t < 8 * 60 + 30
            /\ sess_out = "Market Hours" <=> (8 * 60 + 30 <= t /\ t < 15 * 60)
            /\ sess_out = "Post-Market" <=> t >= 15 * 60

C7_Witness ==
    /\ sess_in = <<3, 8, 30>>
    /\ sess_out = "Market Hours"

\* --------------------------------------------------- dashboard properties
\* C9: the loaded frame is in date-descending, then time-descending order and
\* its equity at each index is 20000 plus the profits up to and including
\* that index; profits [100, -50, 200] give [20100, 20050, 20250].
C9_LoaderEquity ==
    /\ \A i \in 1..Len(loaded) :
          /\ loaded[i].equity =
                (IF i = 1 THEN 20000 ELSE loaded[i - 1].equity)
                    + loaded[i].profit_usd
          /\ \A j \in 1..Len(loaded) :
                i < j =>
                   \/ Ordinal(loaded[i].date) > Ordinal(loaded[j].date)
                   \/ /\ loaded[i].date = loaded[j].date
                      /\ 60 * loaded[i].time[1] + loaded[i].time[2]
                           >= 60 * loaded[j].time[1] + loaded[j].time[2]
    /\ {loaded[i].id : i \in 1..Len(loaded)} \subseteq
           {s.id : s \in db["trades"]}
    /\ (/\ Len(loaded) = 3
        /\ [i \in 1..3 |-> loaded[i].profit_usd] = <<100, 0 - 50, 200>>)
           => [i \in 1..3 |-> loaded[i].equity] = <<20100, 20050, 20250>>

C9_Witness ==
    /\ Len(loaded) = 3
    /\ [i \in 1..3 |-> loaded[i].profit_usd] = <<100, 0 - 50, 200>>
    /\ loaded[3].equity = 20250

Bucket(day, hour) ==
    {j \in 1..Len(loaded) : loaded[j].day = day /\ loaded[j].hour = hour}

Wins(day, hour) == {j \in Bucket(day, hour) : loaded[j].profit_usd > 0}

\* C10: every row of the performance table carries the number of loaded
\* trades of its own (day, hour) bucket and that bucket's share of trades
\* with profit_usd > 0, to the nearest hundredth; no bucket has two rows;
\* profits [10, -5, 20, -1] give 0.50.
C10_WinRate ==
    dpc = "serving" =>
        /\ \A i \in 1..Len(stats) :
              LET n == Cardinality(Bucket(stats[i].day, stats[i].hour))
                  w == Cardinality(Wins(stats[i].day, stats[i].hour))
                  d == 100 * w - stats[i].win_rate * n
              IN  /\ n > 0
                  /\ stats[i].trade_count = n
                  /\ 2 * d <= n /\ 2 * (0 - d) <= n
                  /\ {loaded[j].profit_usd :
                         j \in Bucket(stats[i].day, stats[i].hour)}
                        = {10, 0 - 5, 20, 0 - 1} /\ n = 4
                        => stats[i].win_rate = 50
        /\ \A i, j \in 1..Len(stats) :
              (stats[i].day = stats[j].day /\ stats[i].hour = stats[j].hour)
                  => i = j
        /\ \A j \in 1..Len(loaded) :
              loaded[j].hour # NULLN =>
                 \E i \in 1..Len(stats) :
                    stats[i].day = loaded[j].day
                       /\ stats[i].hour = loaded[j].hour

C10_Witness ==
    /\ dpc = "serving"
    /\ Len(stats) = 3
    /\ stats[1].trade_count = 4 /\ stats[1].win_rate = 50
    /\ stats[2].win_rate = 0
    /\ stats[3].win_rate = 100

\* ------------------------------------------------------- chart properties
\* C11: update_graph draws exactly the visible rows, in date-ascending order,
\* and the value at each position is 20000 plus the profit_usd of the visible
\* rows up to and including that position; no other row contributes.  With
\* no visible row the chart is empty.
C11_EquityChart ==
    gpc = "drawn" =>
        IF visible = <<>>
        THEN figure = EmptyFigure
        ELSE /\ Len(figure.points) = Len(visible)
             /\ Len(dff) = Len(visible)
             /\ {dff[i].id : i \in 1..Len(dff)}
                   = {visible[i].id : i \in 1..Len(visible)}
             /\ figure.hline = 20000
             /\ \A i \in 1..Len(dff) :
                   /\ figure.points[i].x = dff[i].date
                   /\ figure.points[i].y =
                         (IF i = 1 THEN 20000 ELSE figure.points[i - 1].y)
                             + dff[i].profit_usd
                   /\ \A j \in 1..Len(dff) :
                         i < j => Ordinal(dff[i].date) <= Ordinal(dff[j].date)

C11_Witness ==
    /\ gpc = "drawn"
    /\ Len(loaded) = 4
    /\ Len(visible) = 2
    /\ Ordinal(visible[1].date) > Ordinal(visible[2].date)
    /\ dff[1].id = visible[2].id
    /\ \E i \in 1..Len(loaded) :
          loaded[i].id = dff[2].id /\ loaded[i].equity # figure.points[2].y

\* --------------------------------------------------- lifecycle properties
\* C12: every record the Writer had committed when load_data ran is in the
\* frame load_data returned.
C12_WriteThenRead ==
    dpc \in {"loaded", "serving"} =>
        \A s \in seenAtLoad :
            \E i \in 1..Len(loaded) :
                /\ loaded[i].date = s.date
                /\ loaded[i].time = s.time
                /\ loaded[i].profit_usd = s.profit_usd

\* C13: when two ingestion runs have written to the same store with their
\* steps interleaved, the store holds at most one row per natural key.
C13_InterleavedKeyUnique ==
    (\A p \in DOMAIN procs : procs[p].pc = "done") =>
        \A s \in Trades2 :
            Cardinality({t \in Trades2 : KeyOf(t) = KeyOf(s)}) = 1

====
